---- MODULE Spec2Model ----
(***************************************************************************)
(* Model of plugins/inventory/azure_arc.py: the Azure Arc inventory plugin *)
(* (InventoryModule.verify_file, parse, get_arc_machines and               *)
(* generate_ssh_config).                                                   *)
(*                                                                         *)
(* A run of parse is a sequence of steps (pc); the Azure CLI and the file  *)
(* system are the environment.  What the environment answers is fixed in   *)
(* the initial state (azList, genFailAt, fs0), so that parse can be run a  *)
(* second time, with the other value of its cache argument, against the    *)
(* same configuration, file system and command outcomes.                   *)
(***************************************************************************)
EXTENDS Integers, Sequences, FiniteSets, TLC

VARIABLES
    path,          \* the inventory source path given to verify_file / parse
    verified,      \* result of verify_file(path): "unknown", "true", "false"
    config_data,   \* the configuration document: option name -> value
    cache,         \* the cache argument of parse
    azList,        \* what `az connectedmachine list` answers in this world
    genFailAt,     \* which `az ssh config` invocation exits non-zero (0: none)
    fs0,           \* the file system before the run
    fs,            \* the file system: path -> [exists, stanzas]
    pc,            \* position of parse
    machines,      \* local variable machines of parse
    idx,           \* position of the for loop over machines (1-based)
    new_host_name, \* local variable new_host_name of parse
    inventory,     \* the host inventory: host name -> variable name -> value
    inflight,      \* external commands started and not yet completed
    trace,         \* what the run did, in order: commands, exits, removals, add_host
    err,           \* the exception parse ended with, None while there is none
    runNo,         \* 1: first run of parse, 2: the re-run with the other cache value
    saved          \* outcome of the first run, kept for the comparison

vars == <<path, verified, config_data, cache, azList, genFailAt, fs0, fs, pc,
          machines, idx, new_host_name, inventory, inflight, trace, err,
          runNo, saved>>

(***************************************************************************)
(* Bounds of the model.                                                    *)
(***************************************************************************)
MaxMachines == 3

\* Python's None (also what dict.get answers for a missing key).
None == "<None>"

\* Machine names the listing may return; the code enforces neither
\* non-emptiness nor uniqueness, so lists with repeated names are included.
MachineNames == {"vm1", "vm2", "vm3"}

DefaultConfigFilePath == "/tmp/azure_arc_ssh_config"
CustomConfigFilePath == "/etc/arc/ssh_config"
DefaultPrivateKeyFile == "~/.ssh/id_rsa"
Paths == {DefaultConfigFilePath, CustomConfigFilePath}

\* os.path.expanduser: a leading "~" becomes the home directory.
HomeDir == "/home/ansible"
expanduser(p) ==
    IF Len(p) >= 1 /\ SubSeq(p, 1, 1) = "~"
    THEN HomeDir \o SubSeq(p, 2, Len(p))
    ELSE p

\* str.endswith(suffix)
endswith(s, suffix) ==
    /\ Len(s) >= Len(suffix)
    /\ SubSeq(s, Len(s) - Len(suffix) + 1, Len(s)) = suffix

\* str.endswith(tuple): true when s ends with one of the suffixes.
endswith_any(s, suffixes) == \E suffix \in suffixes : endswith(s, suffix)

\* The suffixes verify_file accepts.
RecognizedSuffixes == {"azure_arc.yaml", "azure_arc.yml"}

\* verify_file accepting any YAML file.
verify_file_AnyYaml(p) == endswith_any(p, {".yaml", ".yml"})

\* InventoryModule.verify_file(path)
verify_file(p) == endswith_any(p, RecognizedSuffixes)

\* dict.get(key, default)
Get(d, key, default) == IF key \in DOMAIN d THEN d[key] ELSE default

\* Python truthiness of an option value: None and "" are false.
Falsy(v) == v = None \/ v = ""

(***************************************************************************)
(* The local variables of parse that are read from the configuration.      *)
(***************************************************************************)
subscription_id == Get(config_data, "subscription_id", None)
resource_group == Get(config_data, "resource_group", None)
username == Get(config_data, "username", None)
config_file_path == Get(config_data, "config_file_path", DefaultConfigFilePath)
private_key_file ==
    Get(config_data, "private_key_file", expanduser(DefaultPrivateKeyFile))

\* The validation of parse: the error it raises, None when it raises none.
ValidationError ==
    IF Falsy(resource_group)
    THEN "ValueError: Azure Resource Group must be provided."
    ELSE IF Falsy(username)
         THEN "ValueError: Username for SSH connection must be provided."
         ELSE None

(***************************************************************************)
(* The command lines, as the code builds them.                             *)
(***************************************************************************)
SubscriptionArgs(sub) == IF sub # None THEN <<"--subscription", sub>> ELSE <<>>

ListCommand(rg, sub) ==
    <<"az", "connectedmachine", "list", "--resource-group", rg,
      "--output", "json">> \o SubscriptionArgs(sub)

SshConfigCommand(vm_name, rg, local_user, key_file, file, sub) ==
    <<"az", "ssh", "config", "--vm-name", vm_name, "--resource-group", rg,
      "--local-user", local_user, "--private-key-file", key_file,
      "--file", file>> \o SubscriptionArgs(sub)

\* SshAlias without the user name.
SshAlias_NoUser(rg, vm_name, local_user) == rg \o "-" \o vm_name

\* The value generate_ssh_config returns: the SSH alias of the machine.
SshAlias(rg, vm_name, local_user) == rg \o "-" \o vm_name \o "-" \o local_user

IsListCommand(c) == Len(c) >= 3 /\ c[2] = "connectedmachine" /\ c[3] = "list"
IsSshConfigCommand(c) == Len(c) >= 5 /\ c[2] = "ssh" /\ c[3] = "config"
\* The --vm-name argument of an `az ssh config` command line.
VmNameOf(c) == c[5]

(***************************************************************************)
(* The trace of a run: events [ev, arg].                                   *)
(*   "run"      arg: the command line handed to subprocess.run             *)
(*   "exit"     arg: <<"0">> or <<"1">>, the command's exit status         *)
(*   "remove"   arg: <<path>>, os.remove                                   *)
(*   "add_host" arg: <<name>>, inventory.add_host                          *)
(***************************************************************************)
Event(e, a) == [ev |-> e, arg |-> a]

\* The file system: what os.path.exists, os.remove and the CLI's --file do.
NoFile == [exists |-> FALSE, stanzas |-> <<>>]
FileExists(f, p) == f[p].exists
RemoveFile(f, p) == [f EXCEPT ![p] = NoFile]
\* `az ssh config --file p`: creates p if needed and appends one stanza.
AppendStanza(f, p, alias) ==
    [f EXCEPT ![p] = [exists |-> TRUE, stanzas |-> Append(f[p].stanzas, alias)]]

\* add_host replacing the inventory by the new host alone.
add_host_Replace(hv, name) == [h \in {name} |-> <<>>]

\* inventory.add_host(name): hosts are keyed by name; an existing host is kept.
add_host(hv, name) ==
    [h \in DOMAIN hv \cup {name} |-> IF h \in DOMAIN hv THEN hv[h] ELSE <<>>]

\* inventory.set_variable(host, varname, value)
set_variable(hv, host, varname, value) ==
    [hv EXCEPT ![host] =
        [v \in DOMAIN hv[host] \cup {varname} |->
            IF v = varname THEN value ELSE hv[host][v]]]

(***************************************************************************)
(* The inputs of a run.                                                    *)
(***************************************************************************)
\* private_key_file is left at its default: it only ends up in the command line.
OptionValues ==
    [subscription_id  |-> {"sub-0001"},
     resource_group   |-> {"", "rg1"},
     username         |-> {"", "azureuser"},
     config_file_path |-> {CustomConfigFilePath}]
OptionNames == DOMAIN OptionValues

\* Configuration documents: any subset of the options, each with a value.
ConfigDocs ==
    UNION { {c \in [K -> UNION {OptionValues[k] : k \in OptionNames}] :
                \A k \in K : c[k] \in OptionValues[k]} : K \in SUBSET OptionNames }

\* The machine records the CLI prints: objects with a name and other fields.
MachineRecord(n) == [name |-> n, location |-> "westeurope"]
RecordLists ==
    UNION { [1..n -> {MachineRecord(m) : m \in MachineNames}] : n \in 0..MaxMachines }

\* What `az connectedmachine list` answers: its exit status and, when that
\* is 0, whether stdout is the JSON list the code expects, and the list.
ListAnswers ==
    {[rc |-> 1, json_ok |-> FALSE, records |-> <<>>],
     [rc |-> 0, json_ok |-> FALSE, records |-> <<>>]}
    \cup {[rc |-> 0, json_ok |-> TRUE, records |-> l] : l \in RecordLists}

\* A config file left by an earlier run: one stanza for vm1.
StaleFile ==
    [exists |-> TRUE, stanzas |-> <<SshAlias("rg1", "vm1", "azureuser")>>]
FileSystems == [Paths -> {NoFile, StaleFile}]

\* What a finished run leaves behind.
Outcome ==
    [pc |-> pc, err |-> err, trace |-> trace, inventory |-> inventory, fs |-> fs]
NoOutcome ==
    [pc |-> "none", err |-> None, trace |-> <<>>, inventory |-> <<>>, fs |-> fs0]

\* The state in which parse is entered.
ParseEntry ==
    /\ pc = "start"
    /\ machines = <<>>
    /\ idx = 0
    /\ new_host_name = None
    /\ inventory = <<>>
    /\ inflight = <<>>
    /\ trace = <<>>
    /\ err = None

Init ==
    /\ path = "inventory/azure_arc.yml"
    /\ verified = IF verify_file(path) THEN "true" ELSE "false"
    /\ config_data \in ConfigDocs
    /\ cache \in BOOLEAN
    /\ azList \in ListAnswers
    /\ genFailAt \in 0..MaxMachines
    /\ fs0 \in FileSystems
    /\ fs = fs0
    /\ ParseEntry
    /\ runNo = 1
    /\ saved = NoOutcome

Finished == pc \in {"done", "error"}

inputs == <<path, verified, config_data, azList, genFailAt, fs0>>

\* LoadConfig without the username check.
LoadConfig_NoUsernameCheck ==
    /\ pc = "start"
    /\ IF Falsy(resource_group)
       THEN /\ err' = ValidationError
            /\ pc' = "error"
       ELSE /\ err' = err
            /\ pc' = "reset"
    /\ UNCHANGED <<inputs, cache, fs, machines, idx, new_host_name, inventory,
                   inflight, trace, runNo, saved>>

(***************************************************************************)
(* parse, lines 72-89: read the configuration and validate it.             *)
(***************************************************************************)
LoadConfig ==
    /\ pc = "start"
    /\ IF ValidationError # None
       THEN /\ err' = ValidationError
            /\ pc' = "error"
       ELSE /\ err' = err
            /\ pc' = "reset"
    /\ UNCHANGED <<inputs, cache, fs, machines, idx, new_host_name, inventory,
                   inflight, trace, runNo, saved>>

\* ResetConfigFile without the removal.
ResetConfigFile_NoRemove ==
    /\ pc = "reset"
    /\ pc' = "list"
    /\ UNCHANGED <<inputs, cache, fs, machines, idx, new_host_name, inventory,
                   inflight, trace, err, runNo, saved>>

(***************************************************************************)
(* parse, lines 91-93: delete config_file_path in case it already exists.  *)
(***************************************************************************)
ResetConfigFile ==
    /\ pc = "reset"
    /\ IF FileExists(fs, config_file_path)
       THEN /\ fs' = RemoveFile(fs, config_file_path)
            /\ trace' = Append(trace, Event("remove", <<config_file_path>>))
       ELSE UNCHANGED <<fs, trace>>
    /\ pc' = "list"
    /\ UNCHANGED <<inputs, cache, machines, idx, new_host_name, inventory,
                   inflight, err, runNo, saved>>

\* GetArcMachinesCall answering from a cache when cache is set: no command
\* is run and no machine is returned.
GetArcMachinesCall_Cached ==
    /\ pc = "list"
    /\ IF cache
       THEN /\ machines' = <<>>
            /\ idx' = 1
            /\ pc' = "loop"
            /\ UNCHANGED <<inflight, trace>>
       ELSE /\ LET command == ListCommand(resource_group, subscription_id)
               IN /\ inflight' = Append(inflight, command)
                  /\ trace' = Append(trace, Event("run", command))
            /\ pc' = "listing"
            /\ UNCHANGED <<machines, idx>>
    /\ UNCHANGED <<inputs, cache, fs, new_host_name, inventory, err, runNo, saved>>

(***************************************************************************)
(* get_arc_machines, lines 126-140: build the command and start it.        *)
(***************************************************************************)
GetArcMachinesCall ==
    /\ pc = "list"
    /\ LET command == ListCommand(resource_group, subscription_id)
       IN /\ inflight' = Append(inflight, command)
          /\ trace' = Append(trace, Event("run", command))
    /\ pc' = "listing"
    /\ UNCHANGED <<inputs, cache, fs, machines, idx, new_host_name, inventory,
                   err, runNo, saved>>

\* GetArcMachinesReturn with the exit status unchecked (check=False): a
\* failed listing is read as an empty list.
GetArcMachinesReturn_Unchecked ==
    /\ pc = "listing"
    /\ inflight # <<>>
    /\ inflight' = Tail(inflight)
    /\ trace' = Append(trace, Event("exit", IF azList.rc # 0 THEN <<"1">> ELSE <<"0">>))
    /\ machines' = [j \in 1..Len(azList.records) |->
                       [name |-> azList.records[j].name]]
    /\ idx' = 1
    /\ pc' = "loop"
    /\ UNCHANGED <<inputs, cache, fs, new_host_name, inventory, err, runNo, saved>>

(***************************************************************************)
(* get_arc_machines, lines 140-149: subprocess.run returns.  A non-zero    *)
(* exit raises CalledProcessError, wrapped in Exception; output that is    *)
(* not the expected JSON raises from json.loads; otherwise the records'    *)
(* names are returned and parse starts its loop (line 97).                 *)
(***************************************************************************)
GetArcMachinesReturn ==
    /\ pc = "listing"
    /\ inflight # <<>>
    /\ inflight' = Tail(inflight)
    /\ IF azList.rc # 0
       THEN /\ trace' = Append(trace, Event("exit", <<"1">>))
            /\ err' = "Exception: Failed to retrieve Azure Arc machines"
            /\ pc' = "error"
            /\ UNCHANGED <<machines, idx>>
       ELSE /\ trace' = Append(trace, Event("exit", <<"0">>))
            /\ IF ~azList.json_ok
               THEN /\ err' = "JSONDecodeError"
                    /\ pc' = "error"
                    /\ UNCHANGED <<machines, idx>>
               ELSE /\ machines' = [j \in 1..Len(azList.records) |->
                                       [name |-> azList.records[j].name]]
                    /\ idx' = 1
                    /\ pc' = "loop"
                    /\ err' = err
    /\ UNCHANGED <<inputs, cache, fs, new_host_name, inventory, runNo, saved>>

\* The `az ssh config` invocations of the run so far.
SshConfigCalls ==
    SelectSeq(trace, LAMBDA e : e.ev = "run" /\ IsSshConfigCommand(e.arg))

\* GenerateSshConfigCall that starts the command without waiting for it
\* (Popen instead of run) and goes on to the next machine.
GenerateSshConfigCall_NoWait ==
    /\ pc = "loop"
    /\ idx <= Len(machines)
    /\ LET command == SshConfigCommand(machines[idx].name, resource_group,
                          username, private_key_file, config_file_path,
                          subscription_id)
       IN /\ inflight' = Append(inflight, command)
          /\ trace' = Append(trace, Event("run", command))
    /\ idx' = idx + 1
    /\ UNCHANGED <<inputs, cache, fs, machines, pc, new_host_name, inventory,
                   err, runNo, saved>>

(***************************************************************************)
(* parse, lines 97-106, and generate_ssh_config, lines 170-190: the next   *)
(* machine of the list; build its command and start it.                    *)
(***************************************************************************)
GenerateSshConfigCall ==
    /\ pc = "loop"
    /\ idx <= Len(machines)
    /\ LET command == SshConfigCommand(machines[idx].name, resource_group,
                          username, private_key_file, config_file_path,
                          subscription_id)
       IN /\ inflight' = Append(inflight, command)
          /\ trace' = Append(trace, Event("run", command))
    /\ pc' = "generating"
    /\ UNCHANGED <<inputs, cache, fs, machines, idx, new_host_name, inventory,
                   err, runNo, saved>>

\* GenerateSshConfigReturn with the failure swallowed: the loop goes on.
GenerateSshConfigReturn_Swallow ==
    /\ pc = "generating"
    /\ inflight # <<>>
    /\ inflight' = Tail(inflight)
    /\ LET command == Head(inflight)
           alias == SshAlias(resource_group, VmNameOf(command), username)
       IN /\ IF Len(SshConfigCalls) = genFailAt
             THEN /\ trace' = Append(trace, Event("exit", <<"1">>))
                  /\ UNCHANGED fs
             ELSE /\ trace' = Append(trace, Event("exit", <<"0">>))
                  /\ fs' = AppendStanza(fs, config_file_path, alias)
          /\ new_host_name' = alias
          /\ pc' = "register"
    /\ UNCHANGED <<inputs, cache, machines, idx, inventory, err, runNo, saved>>

(***************************************************************************)
(* generate_ssh_config, lines 189-193: subprocess.run returns.  On exit 0  *)
(* the CLI has appended the machine's stanza to the file and the alias is  *)
(* returned; a non-zero exit raises, wrapped in Exception.                 *)
(***************************************************************************)
GenerateSshConfigReturn ==
    /\ pc = "generating"
    /\ inflight # <<>>
    /\ inflight' = Tail(inflight)
    /\ LET command == Head(inflight)
           alias == SshAlias(resource_group, VmNameOf(command), username)
       IN IF Len(SshConfigCalls) = genFailAt
          THEN /\ trace' = Append(trace, Event("exit", <<"1">>))
               /\ err' = "Exception: Failed to generate SSH config"
               /\ pc' = "error"
               /\ UNCHANGED <<fs, new_host_name>>
          ELSE /\ trace' = Append(trace, Event("exit", <<"0">>))
               /\ fs' = AppendStanza(fs, config_file_path, alias)
               /\ new_host_name' = alias
               /\ pc' = "register"
               /\ err' = err
    /\ UNCHANGED <<inputs, cache, machines, idx, inventory, runNo, saved>>

\* RegisterHost registering the machine after the one just generated
\* (the loop index advanced before the registration).
RegisterHost_NextMachine ==
    /\ pc = "register"
    /\ LET name == machines[IF idx < Len(machines) THEN idx + 1 ELSE idx].name
           i1 == add_host(inventory, name)
           i2 == set_variable(i1, name, "ansible_host", new_host_name)
           i3 == set_variable(i2, name, "ansible_connection", "ssh")
           i4 == set_variable(i3, name, "ansible_ssh_common_args",
                              "-F " \o config_file_path)
       IN /\ inventory' = i4
          /\ trace' = Append(trace, Event("add_host", <<name>>))
    /\ idx' = idx + 1
    /\ pc' = "loop"
    /\ UNCHANGED <<inputs, cache, fs, machines, new_host_name, inflight, err,
                   runNo, saved>>

(***************************************************************************)
(* parse, lines 107-118: register the machine and set its variables, then  *)
(* go on to the next machine.                                              *)
(***************************************************************************)
RegisterHost ==
    /\ pc = "register"
    /\ LET name == machines[idx].name
           i1 == add_host(inventory, name)
           i2 == set_variable(i1, name, "ansible_host", new_host_name)
           i3 == set_variable(i2, name, "ansible_connection", "ssh")
           i4 == set_variable(i3, name, "ansible_ssh_common_args",
                              "-F " \o config_file_path)
       IN /\ inventory' = i4
          /\ trace' = Append(trace, Event("add_host", <<name>>))
    /\ idx' = idx + 1
    /\ pc' = "loop"
    /\ UNCHANGED <<inputs, cache, fs, machines, new_host_name, inflight, err,
                   runNo, saved>>

(***************************************************************************)
(* parse, line 97: the list is exhausted and parse returns.                *)
(***************************************************************************)
ParseReturn ==
    /\ pc = "loop"
    /\ idx > Len(machines)
    /\ pc' = "done"
    /\ UNCHANGED <<inputs, cache, fs, machines, idx, new_host_name, inventory,
                   inflight, trace, err, runNo, saved>>

(***************************************************************************)
(* parse(inventory, loader, path, cache), line 66: the host calls parse    *)
(* again with the other value of cache, on a fresh inventory, with the     *)
(* file system and the command outcomes as they were for the first run.    *)
(***************************************************************************)
ParseAgain ==
    /\ Finished
    /\ runNo = 1
    /\ saved' = Outcome
    /\ runNo' = 2
    /\ cache' = ~cache
    /\ fs' = fs0
    /\ pc' = "start"
    /\ machines' = <<>>
    /\ idx' = 0
    /\ new_host_name' = None
    /\ inventory' = <<>>
    /\ inflight' = <<>>
    /\ trace' = <<>>
    /\ err' = None
    /\ UNCHANGED inputs

Next ==
    \/ LoadConfig
    \/ ResetConfigFile
    \/ GetArcMachinesCall
    \/ GetArcMachinesReturn
    \/ GenerateSshConfigCall
    \/ GenerateSshConfigReturn
    \/ RegisterHost
    \/ ParseReturn
    \/ ParseAgain

Spec == Init /\ [][Next]_vars

(***************************************************************************)
(* verify_file on its own: the host asks whether a source path is this     *)
(* plugin's, for paths around the recognized names.                        *)
(***************************************************************************)
VerifyDirs ==
    {"", "/", "./", "inventory/", "azure_arc.yml/", "azure_arc.yaml.d/", "my_"}
VerifyFileNames ==
    {"azure_arc.yaml", "azure_arc.yml", "azure_arc.yam", "azure_arc.ym",
     "azure_arc.yaml.bak", "azure_arc.yml~", "azure_arc.json", "azure_arc",
     "azure_arc.YAML", "azure-arc.yml", "zure_arc.yml", "arc.yaml", "arc.yml",
     "hosts.yml", ""}
VerifyPaths == {d \o f : d \in VerifyDirs, f \in VerifyFileNames}

InitVerify ==
    /\ path \in VerifyPaths
    /\ verified = "unknown"
    /\ config_data = <<>>
    /\ cache = TRUE
    /\ azList = [rc |-> 0, json_ok |-> TRUE, records |-> <<>>]
    /\ genFailAt = 0
    /\ fs0 = [p \in Paths |-> NoFile]
    /\ fs = fs0
    /\ ParseEntry
    /\ runNo = 1
    /\ saved = NoOutcome

VerifyFile ==
    /\ verified = "unknown"
    /\ verified' = IF verify_file(path) THEN "true" ELSE "false"
    /\ UNCHANGED <<path, config_data, cache, azList, genFailAt, fs0, fs, pc,
                   machines, idx, new_host_name, inventory, inflight, trace,
                   err, runNo, saved>>

NextVerify == VerifyFile

SpecVerify == InitVerify /\ [][NextVerify]_vars

(***************************************************************************)
(* What the claims speak of.                                               *)
(***************************************************************************)
Hosts == DOMAIN inventory
Range(f) == {f[x] : x \in DOMAIN f}

\* The names of the records the listing returns, in order.
RecordNames == [j \in 1..Len(azList.records) |-> azList.records[j].name]

\* External commands of the run so far, and their completions.
RunEvents == SelectSeq(trace, LAMBDA e : e.ev = "run")
RunExitEvents == SelectSeq(trace, LAMBDA e : e.ev \in {"run", "exit"})
ListCalls == SelectSeq(trace, LAMBDA e : e.ev = "run" /\ IsListCommand(e.arg))
RemoveEvents == SelectSeq(trace, LAMBDA e : e.ev = "remove")
AddHostEvents == SelectSeq(trace, LAMBDA e : e.ev = "add_host")
\* The machine names the `az ssh config` invocations were made for, in order.
SshConfigNames == [j \in 1..Len(SshConfigCalls) |-> VmNameOf(SshConfigCalls[j].arg)]
\* The names add_host was called with, in order.
AddHostNames == [j \in 1..Len(AddHostEvents) |-> AddHostEvents[j].arg[1]]

IsPrefix(s, t) == Len(s) <= Len(t) /\ \A j \in 1..Len(s) : s[j] = t[j]

\* The configuration lacks a required option.
MissingRequired ==
    "resource_group" \notin DOMAIN config_data \/ "username" \notin DOMAIN config_data

\* The listing succeeds and returns its records.
ListingOk == ValidationError = None /\ azList.rc = 0 /\ azList.json_ok
\* The listing exits non-zero.
ListingFails == ValidationError = None /\ azList.rc # 0
\* The `az ssh config` invocation for the genFailAt-th machine fails.
GenerationFails == ListingOk /\ genFailAt \in 1..Len(azList.records)
\* Every `az ssh config` invocation succeeds.
AllGenerationsSucceed == ListingOk /\ genFailAt \notin 1..Len(azList.records)

(***************************************************************************)
(* C1: if `az ssh config` fails for machine mk of m1..mN, parse ends in an *)
(* error; m1..m(k-1) are registered (add_host was called for exactly       *)
(* them, in order, and they are hosts of the inventory); the command is    *)
(* never invoked and add_host never called for m(k+1)..mN.                 *)
(***************************************************************************)
C1_AbortAtFailedMachine ==
    GenerationFails =>
        LET k == genFailAt
        IN /\ IsPrefix(SshConfigNames, SubSeq(RecordNames, 1, k))
           /\ IsPrefix(AddHostNames, SubSeq(RecordNames, 1, k - 1))
           /\ pc # "done"
           /\ Finished =>
                /\ pc = "error"
                /\ err = "Exception: Failed to generate SSH config"
                /\ SshConfigNames = SubSeq(RecordNames, 1, k)
                /\ AddHostNames = SubSeq(RecordNames, 1, k - 1)
                /\ \A j \in 1..(k - 1) : RecordNames[j] \in Hosts

C1_Witness ==
    /\ GenerationFails
    /\ Len(azList.records) = 3
    /\ genFailAt = 2
    /\ pc = "error"
    /\ Hosts # {}

(***************************************************************************)
(* C2: with resource_group or username missing from the configuration,     *)
(* parse fails with a validation error (ValueError) and no external        *)
(* command is ever invoked.                                                *)
(***************************************************************************)
C2_ValidationBeforeCommands ==
    MissingRequired =>
        /\ RunEvents = <<>>
        /\ inflight = <<>>
        /\ pc \in {"start", "error"}
        /\ pc = "error" =>
             err \in {"ValueError: Azure Resource Group must be provided.",
                      "ValueError: Username for SSH connection must be provided."}

C2_Witness ==
    /\ "username" \notin DOMAIN config_data
    /\ "resource_group" \in DOMAIN config_data
    /\ config_data["resource_group"] = "rg1"
    /\ pc = "error"

(***************************************************************************)
(* C3: if `az connectedmachine list` exits non-zero, the run aborts with   *)
(* the propagated error, no host is registered and `az ssh config` is      *)
(* never invoked.                                                          *)
(***************************************************************************)
C3_ListingFailureAborts ==
    ListingFails =>
        /\ Hosts = {}
        /\ AddHostEvents = <<>>
        /\ SshConfigCalls = <<>>
        /\ pc \notin {"done", "loop", "generating", "register"}
        /\ Finished =>
             /\ err = "Exception: Failed to retrieve Azure Arc machines"
             /\ Len(ListCalls) = 1

C3_Witness ==
    /\ ListingFails
    /\ pc = "error"
    /\ Len(RunExitEvents) = 2

(***************************************************************************)
(* C4: a config file that exists before the run is removed exactly once,   *)
(* before the listing and before any `az ssh config`, so that after a run  *)
(* that passed validation the file holds exactly the stanzas appended      *)
(* during this run, none from before.                                      *)
(***************************************************************************)
\* The aliases of the stanzas the successful invocations of this run appended:
\* the `az ssh config` commands of the trace that were followed by exit 0.
SucceededAt(j) ==
    /\ trace[j].ev = "run"
    /\ IsSshConfigCommand(trace[j].arg)
    /\ j < Len(trace)
    /\ trace[j + 1] = Event("exit", <<"0">>)
AliasOfCommand(c) == c[7] \o "-" \o c[5] \o "-" \o c[9]
RECURSIVE StanzasOfRun(_)
StanzasOfRun(n) ==
    IF n = 0 THEN <<>>
    ELSE IF SucceededAt(n)
         THEN Append(StanzasOfRun(n - 1), AliasOfCommand(trace[n].arg))
         ELSE StanzasOfRun(n - 1)

C4_StaleConfigRemovedFirst ==
    (ValidationError = None /\ FileExists(fs0, config_file_path)) =>
        /\ Len(RemoveEvents) <= 1
        /\ pc \notin {"start", "reset"} =>
             /\ Len(RemoveEvents) = 1
             /\ trace[1] = Event("remove", <<config_file_path>>)
        /\ Finished =>
             /\ fs[config_file_path].stanzas = StanzasOfRun(Len(trace))
             /\ fs[config_file_path].exists = (StanzasOfRun(Len(trace)) # <<>>)

C4_Witness ==
    /\ FileExists(fs0, config_file_path)
    /\ pc = "done"
    /\ Len(fs[config_file_path].stanzas) = 2
    /\ fs0[config_file_path].stanzas[1] \in Range(fs[config_file_path].stanzas)

(***************************************************************************)
(* C5, as stated: when the listing returns N records and every generation  *)
(* succeeds, the inventory ends up with exactly N hosts, each named after  *)
(* its record (one add_host call per record).                              *)
(***************************************************************************)
C5_ExactlyNHosts ==
    (AllGenerationsSucceed /\ pc = "done") =>
        /\ AddHostNames = RecordNames
        /\ Hosts = Range(RecordNames)
        /\ Cardinality(Hosts) = Len(azList.records)

(***************************************************************************)
(* C5, amended: when the listing returns N records and every generation    *)
(* succeeds, parse returns normally, add_host has been called once per     *)
(* record, in list order, with the record's name, and the inventory holds  *)
(* one host per distinct record name: exactly N hosts when the N names     *)
(* are pairwise distinct, fewer when a name repeats.                       *)
(***************************************************************************)
NamesDistinct ==
    \A a, b \in DOMAIN RecordNames : RecordNames[a] = RecordNames[b] => a = b

C5_OneHostPerDistinctName ==
    AllGenerationsSucceed =>
        /\ pc # "error"
        /\ pc = "done" =>
             /\ AddHostNames = RecordNames
             /\ Hosts = Range(RecordNames)
             /\ NamesDistinct <=> Cardinality(Hosts) = Len(azList.records)
             /\ Cardinality(Hosts) <= Len(azList.records)

C5_Witness ==
    /\ AllGenerationsSucceed
    /\ pc = "done"
    /\ Len(azList.records) = 3
    /\ NamesDistinct
    /\ Cardinality(Hosts) = 3

(***************************************************************************)
(* C6: every registered host has ansible_host = resource_group "-" name    *)
(* "-" username, ansible_connection = "ssh" and ansible_ssh_common_args =  *)
(* "-F " followed by the configured config_file_path, or by                *)
(* /tmp/azure_arc_ssh_config when none is configured.                      *)
(***************************************************************************)
C6_HostVariables ==
    \A h \in Hosts :
        /\ DOMAIN inventory[h] =
             {"ansible_host", "ansible_connection", "ansible_ssh_common_args"}
        /\ inventory[h]["ansible_host"] =
             config_data["resource_group"] \o "-" \o h \o "-" \o config_data["username"]
        /\ inventory[h]["ansible_connection"] = "ssh"
        /\ inventory[h]["ansible_ssh_common_args"] =
             IF "config_file_path" \in DOMAIN config_data
             THEN "-F " \o config_data["config_file_path"]
             ELSE "-F /tmp/azure_arc_ssh_config"

C6_Witness ==
    /\ "vm2" \in Hosts
    /\ "config_file_path" \notin DOMAIN config_data
    /\ inventory["vm2"]["ansible_host"] = "rg1-vm2-azureuser"
    /\ inventory["vm2"]["ansible_ssh_common_args"] = "-F /tmp/azure_arc_ssh_config"

(***************************************************************************)
(* C7: verify_file answers true exactly for the paths that end in          *)
(* "azure_arc.yaml" or "azure_arc.yml", and false for every other path.    *)
(***************************************************************************)
\* p is some prefix followed by suffix.
HasSuffix(p, suffix) == \E k \in 0..Len(p) : p = SubSeq(p, 1, k) \o suffix

C7_VerifyFile ==
    verified # "unknown" =>
        /\ verified \in {"true", "false"}
        /\ verified = "true" <=>
             (HasSuffix(path, "azure_arc.yaml") \/ HasSuffix(path, "azure_arc.yml"))

C7_Witness ==
    /\ path = "inventory/azure_arc.yaml.bak"
    /\ verified = "false"

(***************************************************************************)
(* C8: the cache argument has no effect: the run with the other value of   *)
(* cache, against the same configuration, file system and command          *)
(* outcomes, issues the same commands in the same order and ends with the  *)
(* same inventory, variables, config file and error.                       *)
(***************************************************************************)
C8_CacheHasNoEffect ==
    runNo = 2 =>
        /\ IsPrefix(trace, saved.trace)
        /\ Finished => Outcome = saved

C8_Witness ==
    /\ runNo = 2
    /\ pc = "done"
    /\ cache
    /\ Cardinality(Hosts) = 2
    /\ saved.pc = "done"

(***************************************************************************)
(* C9: execution is sequential: at most one external command is in flight; *)
(* commands and completions alternate; the listing is invoked once, first, *)
(* and completes before any `az ssh config` starts; the `az ssh config`    *)
(* commands are issued one per machine in the order of the returned list,  *)
(* each completing before the next starts.                                 *)
(***************************************************************************)
C9_Sequential ==
    /\ Len(inflight) <= 1
    /\ Len(inflight) = 1 <=> Len(RunExitEvents) % 2 = 1
    /\ \A j \in 1..Len(RunExitEvents) :
         RunExitEvents[j].ev = (IF j % 2 = 1 THEN "run" ELSE "exit")
    /\ Len(ListCalls) <= 1
    /\ pc \in {"listing", "loop", "generating", "register", "done"} =>
         Len(ListCalls) = 1
    /\ RunExitEvents # <<>> => IsListCommand(RunExitEvents[1].arg)
    /\ SshConfigCalls # <<>> =>
         /\ Len(RunExitEvents) >= 3
         /\ RunExitEvents[2] = Event("exit", <<"0">>)
         /\ \A j \in 3..Len(RunExitEvents) :
              j % 2 = 1 => IsSshConfigCommand(RunExitEvents[j].arg)
    /\ IsPrefix(SshConfigNames, RecordNames)
    /\ pc = "done" => SshConfigNames = RecordNames

C9_Witness ==
    /\ Len(SshConfigCalls) = 3
    /\ Len(inflight) = 1
    /\ SshConfigNames = <<"vm2", "vm1", "vm2">>

====
